---- MODULE Spec2Model ----
(***************************************************************************)
(* A model of the wfc3_psf toolkit: FocusModel (a fitted/unfitted object   *)
(* with a parameter dictionary), StabilityAnalyzer, AnomalyDetector and    *)
(* the sample-PSF generator.                                               *)
(*                                                                         *)
(* Real numbers are modelled exactly.  A Python float is one of            *)
(*   [kind |-> "float", q |-> r]   the rational r = [num, den], reduced    *)
(*   [kind |-> "sqrt",  q |-> r]   the non-negative root of the rational r *)
(*   [kind |-> "nan"]              NaN                                     *)
(* and a Python tuple is [kind |-> "tuple", items |-> <<...>>].  Indices   *)
(* of the model are 1-based; every index that the program returns or the   *)
(* claims speak of is converted to the program's 0-based index.            *)
(***************************************************************************)
EXTENDS Integers, Sequences, FiniteSets, TLC

VARIABLES
    args,      \* arguments of the call to a static (pure) function
    ret,       \* what that call returned, NoCall before it is made
    fitted,    \* FocusModel.fitted
    params,    \* FocusModel.params (a dict: a function from keys to values)
    writer,    \* ghost: for each key of params, the fit call that wrote it
    pc,        \* per caller: the statement of fit/predict it is about to run
    frame,     \* per caller: the local variables of its current or last call
    nfits,     \* ghost: fit calls started so far; the next one's identity
    fitReturned  \* ghost: some fit call has returned

vars == <<args, ret, fitted, params, writer, pc, frame, nfits, fitReturned>>

focusVars == <<fitted, params, writer, pc, frame, nfits, fitReturned>>

\* ------------------------------------------------------------------ bounds
MaxLen == 3
MaxTime == 2
MaxMetric == 2
MaxWindow == 3
MaxSeries == 4
MaxThreshold == 3
MaxRadius == 2
MaxSide == 2
MaxSize == 7
MaxFwhm == 3
NCallers == 2
MaxFits == 2

\* ------------------------------------------------------- exact arithmetic
Abs(x) == IF x < 0 THEN -x ELSE x

Max(a, b) == IF a >= b THEN a ELSE b

Min(a, b) == IF a <= b THEN a ELSE b

RECURSIVE GCD(_, _)
GCD(a, b) == IF b = 0 THEN a ELSE GCD(b, a % b)

\* the rational n/d (d # 0) in lowest terms with a positive denominator
Rat(n, d) ==
    LET g == GCD(Abs(n), Abs(d))
        s == IF d < 0 THEN -1 ELSE 1
    IN [num |-> s * (n \div g), den |-> s * (d \div g)]

RInt(n) == [num |-> n, den |-> 1]

RAdd(x, y) == Rat(x.num * y.den + y.num * x.den, x.den * y.den)

RSub(x, y) == Rat(x.num * y.den - y.num * x.den, x.den * y.den)

RMul(x, y) == Rat(x.num * y.num, x.den * y.den)

RDiv(x, y) == Rat(x.num * y.den, x.den * y.num)

RAbs(x) == [num |-> Abs(x.num), den |-> x.den]

RLess(x, y) == x.num * y.den < y.num * x.den

RECURSIVE RSum(_)
RSum(s) == IF s = <<>> THEN RInt(0) ELSE RAdd(Head(s), RSum(Tail(s)))

RECURSIVE ISum(_)
ISum(s) == IF s = <<>> THEN 0 ELSE Head(s) + ISum(Tail(s))

\* floor of the square root of n >= 0, by bisection on lo..hi
RECURSIVE ISqrtIn(_, _, _)
ISqrtIn(n, lo, hi) ==
    IF lo >= hi THEN lo
    ELSE LET mid == (lo + hi + 1) \div 2
         IN IF mid * mid <= n THEN ISqrtIn(n, mid, hi) ELSE ISqrtIn(n, lo, mid - 1)

ISqrt(n) == ISqrtIn(n, 0, Min(n, 46340))

IsSquare(n) == n >= 0 /\ ISqrt(n) * ISqrt(n) = n

\* ------------------------------------------------------- Python values
PyFloat(r) == [kind |-> "float", q |-> r]

PyNaN == [kind |-> "nan"]

PyTuple(items) == [kind |-> "tuple", items |-> items]

Zero == PyFloat(RInt(0))

\* float(np.sqrt(r)) for a rational r >= 0: a rational when r is a square
PySqrt(r) ==
    IF r.num < 0 THEN PyNaN
    ELSE IF IsSquare(r.num) /\ IsSquare(r.den)
         THEN PyFloat(Rat(ISqrt(r.num), ISqrt(r.den)))
         ELSE [kind |-> "sqrt", q |-> r]

\* seq[lo:hi] of Python for 0-based integers lo, hi of either sign
PySlice(seq, lo, hi) ==
    LET n == Len(seq)
        l == IF lo < 0 THEN Max(0, lo + n) ELSE Min(lo, n)
        h == IF hi < 0 THEN Max(0, hi + n) ELSE Min(hi, n)
    IN IF l >= h THEN <<>> ELSE SubSeq(seq, l + 1, h)

NoCall == [op |-> "none"]

\* np.asarray(seq, dtype=float) of a sequence of integers
AsArray(seq) == [i \in 1..Len(seq) |-> RInt(seq[i])]

Seqs(S, n) == UNION {[1..k -> S] : k \in 0..n}

focusIdle ==
    /\ fitted = FALSE
    /\ params = [k \in {} |-> 0]
    /\ writer = [k \in {} |-> 0]
    /\ pc = <<>>
    /\ frame = <<>>
    /\ nfits = 0
    /\ fitReturned = FALSE

\* a static function is called once on the arguments drawn by Init
Call(op, val) ==
    /\ ret = NoCall
    /\ ret' = [op |-> op, val |-> val]
    /\ UNCHANGED <<args, focusVars>>

\* ------------------------------------------------------ StabilityAnalyzer
\* np.linalg.lstsq([t, 1], y)[0]: the least-squares line, and the solution of
\* least norm when the times are all equal (the design matrix has rank 1)
Lstsq(t, y) ==
    LET n == Len(t)
        St == ISum(t)
        Sy == ISum(y)
        Stt == ISum([i \in 1..n |-> t[i] * t[i]])
        Sty == ISum([i \in 1..n |-> t[i] * y[i]])
        D == n * Stt - St * St
        c == t[1]
    IN IF D # 0
       THEN <<Rat(n * Sty - St * Sy, D), Rat(Stt * Sy - St * Sty, D)>>
       ELSE <<Rat(c * Sy, n * (c * c + 1)), Rat(Sy, n * (c * c + 1))>>

\* return 0.0, float(y[0]) if t.size == 1 else (0.0, 0.0): the conditional
\* expression is the second item of the returned tuple
compute_drift(times, metrics) ==
    IF Len(times) < 2
    THEN PyTuple(<<Zero, IF Len(times) = 1
                         THEN PyFloat(RInt(metrics[1]))
                         ELSE PyTuple(<<Zero, Zero>>)>>)
    ELSE LET mb == Lstsq(times, metrics)
         IN PyTuple(<<PyFloat(mb[1]), PyFloat(mb[2])>>)

\* resid = y - (m * t + b), for a non-empty series
Residuals(times, metrics) ==
    LET mb == compute_drift(times, metrics).items
        m == mb[1].q
        b == mb[2].q
    IN [i \in 1..Len(metrics) |->
          RSub(RInt(metrics[i]), RAdd(RMul(m, RInt(times[i])), b))]

Squares(seg) == [k \in 1..Len(seg) |-> RMul(seg[k], seg[k])]

\* np.mean of a non-empty array
Mean(seg) == RDiv(RSum(seg), RInt(Len(seg)))

\* the lower end of the window without the clamp at the start of the series
RollingLoUnclamped(i, half) == i - half

\* lo = max(0, i - half), for the 0-based index i
RollingLo(i, half) == Max(0, i - half)

\* hi = min(n, i + half + 1)
RollingHi(i, half, n) == Min(n, i + half + 1)

rolling_rms(times, metrics, window) ==
    IF Len(metrics) = 0 THEN <<>>
    ELSE LET resid == Residuals(times, metrics)
             n == Len(resid)
             half == window \div 2
         IN IF window <= 1
            THEN [i \in 1..n |-> PySqrt(RMul(resid[i], resid[i]))]
            ELSE [i \in 1..n |->
                    LET seg == PySlice(resid, RollingLo(i - 1, half),
                                       RollingHi(i - 1, half, n))
                    IN IF Len(seg) > 0 THEN PySqrt(Mean(Squares(seg))) ELSE PyNaN]

\* sorted(seq) for rationals
Sorted(seq) == SortSeq(seq, RLess)

\* np.median: NaN for the empty array
Median(seq) ==
    LET n == Len(seq)
        s == Sorted(seq)
    IN IF n = 0 THEN PyNaN
       ELSE IF n % 2 = 1 THEN PyFloat(s[(n + 1) \div 2])
       ELSE PyFloat(RDiv(RAdd(s[n \div 2], s[n \div 2 + 1]), RInt(2)))

\* np.std: the root of the mean squared deviation from the mean
Std(seq) ==
    IF Len(seq) = 0 THEN PyNaN
    ELSE LET mu == Mean(seq)
         IN PySqrt(Mean(Squares([i \in 1..Len(seq) |-> RSub(seq[i], mu)])))

\* the square of a non-negative float
SquareOf(x) == IF x.kind = "float" THEN RMul(x.q, x.q) ELSE x.q

\* np.nanmax of a non-empty array of non-negative floats, none of them NaN
RECURSIVE NanMax(_)
NanMax(s) ==
    IF Len(s) = 1 THEN s[1]
    ELSE LET r == NanMax(Tail(s))
         IN IF RLess(SquareOf(Head(s)), SquareOf(r)) THEN r ELSE Head(s)

summary(times, metrics, window) ==
    LET drift == compute_drift(times, metrics).items
        rms == rolling_rms(times, metrics, window)
    IN [slope |-> drift[1],
        intercept |-> drift[2],
        median |-> Median(AsArray(metrics)),
        std |-> Std(AsArray(metrics)),
        max_rms |-> IF Len(rms) > 0 THEN NanMax(rms) ELSE Zero]

Windows == -1..MaxWindow

\* observation times come in chronological order, repeats allowed
Chronological(t) == \A i \in 1..(Len(t) - 1) : t[i] <= t[i + 1]

\* times and metrics passed together have equal length
StabilityArgs ==
    {[times |-> t, metrics |-> y, window |-> w] :
        t \in {u \in Seqs(0..MaxTime, MaxLen) : Chronological(u)},
        y \in Seqs(0..MaxMetric, MaxLen),
        w \in Windows}

InitStability ==
    /\ args \in {a \in StabilityArgs : Len(a.times) = Len(a.metrics)}
    /\ ret = NoCall
    /\ focusIdle

CallComputeDrift == Call("compute_drift", compute_drift(args.times, args.metrics))

CallRollingRms ==
    Call("rolling_rms", rolling_rms(args.times, args.metrics, args.window))

CallSummary == Call("summary", summary(args.times, args.metrics, args.window))

NextStability == CallComputeDrift \/ CallRollingRms \/ CallSummary

SpecStability == InitStability /\ [][NextStability]_vars

\* C2: compute_drift returns a pair of two real scalars for every input length:
\* (0.0, 0.0) on zero points, (0.0, v) on the one point (t, v), and slope 2.0,
\* intercept 0.0 on the two points (0,0),(1,2).
CexC2 ==
    ret.op = "compute_drift" =>
        /\ ret.val.kind = "tuple"
        /\ Len(ret.val.items) = 2
        /\ \A k \in 1..2 : ret.val.items[k].kind = "float"
        /\ Len(args.times) = 0 => ret.val = PyTuple(<<Zero, Zero>>)
        /\ Len(args.times) = 1 =>
              ret.val = PyTuple(<<Zero, PyFloat(RInt(args.metrics[1]))>>)
        /\ (args.times = <<0, 1>> /\ args.metrics = <<0, 2>>) =>
              ret.val = PyTuple(<<PyFloat(RInt(2)), Zero>>)

\* the 0-based indices max(0, i - window \div 2) .. min(n-1, i + window \div 2)
ClampedRange(i, window, n) ==
    {j \in 0..(n - 1) : /\ Max(0, i - window \div 2) <= j
                        /\ j <= Min(n - 1, i + window \div 2)}

RECURSIVE SumOver(_, _)
SumOver(S, f) ==
    IF S = {} THEN RInt(0)
    ELSE LET j == CHOOSE k \in S : TRUE
         IN RAdd(f[j + 1], SumOver(S \ {j}, f))

\* the root mean square of the residuals at the 0-based indices S
RmsOver(S, resid) ==
    PySqrt(RDiv(SumOver(S, Squares(resid)), RInt(Cardinality(S))))

MadScaleNum == 7413
MadScaleDen == 5000

\* np.abs(seg - med)
AbsDev(seg, med) == [k \in 1..Len(seg) |-> RAbs(RSub(seg[k], med))]

\* sigma from the MAD alone, without the fall-back to the standard deviation
RobustSigmaNoFallback(seg) ==
    LET med == Median(seg).q
        mad == Median(AbsDev(seg, med)).q
    IN PyFloat(RMul(Rat(MadScaleNum, MadScaleDen), mad))

\* sigma = 1.4826 * mad if mad > 0 else np.std(seg), for a non-empty seg
RobustSigma(seg) ==
    LET med == Median(seg).q
        mad == Median(AbsDev(seg, med)).q
    IN IF mad.num > 0
       THEN PyFloat(RMul(Rat(MadScaleNum, MadScaleDen), mad))
       ELSE Std(seg)

\* dev > threshold_sigma * sigma, for a rational dev >= 0 and a float sigma >= 0
Exceeds(dev, thr, sigma) ==
    IF sigma.kind = "float" THEN RLess(RMul(RInt(thr), sigma.q), dev)
    ELSE IF thr < 0 THEN TRUE
    ELSE RLess(RMul(RInt(thr * thr), sigma.q), RMul(dev, dev))

\* the branch window <= 0: one median and one sigma for the whole series
GlobalMask(y, thr) ==
    LET med == Median(y).q
        sigma == RobustSigma(y)
    IN IF sigma = Zero THEN [i \in 1..Len(y) |-> FALSE]
       ELSE [i \in 1..Len(y) |-> Exceeds(RAbs(RSub(y[i], med)), thr, sigma)]

\* the local window cut one short on the right: y[max(0, i - window) : i + window]
LocalSegShort(y, i, window) ==
    PySlice(y, Max(0, i - window), Min(Len(y), i + window))

\* seg = y[max(0, i - window) : min(n, i + window + 1)], for the 0-based index i
LocalSeg(y, i, window) ==
    PySlice(y, Max(0, i - window), Min(Len(y), i + window + 1))

\* one pass of the loop over i: continue when sigma == 0, else compare y[i]
LocalFlag(y, i, thr, window) ==
    LET seg == LocalSeg(y, i, window)
        med == Median(seg).q
        sigma == RobustSigma(seg)
    IN IF sigma = Zero THEN FALSE
       ELSE Exceeds(RAbs(RSub(y[i + 1], med)), thr, sigma)

detect_anomalies(metrics, threshold_sigma, window) ==
    LET y == AsArray(metrics)
        n == Len(y)
    IN IF n = 0 THEN <<>>
       ELSE IF window <= 0 THEN GlobalMask(y, threshold_sigma)
       ELSE [i \in 1..n |-> LocalFlag(y, i - 1, threshold_sigma, window)]

\* the positions of the true entries counted from 1
NonZeroOneBased(mask) ==
    SelectSeq([k \in 1..Len(mask) |-> k], LAMBDA i : mask[i])

\* np.nonzero(mask)[0]: the 0-based positions of the true entries, ascending
NonZero(mask) ==
    SelectSeq([k \in 1..Len(mask) |-> k - 1], LAMBDA i : mask[i + 1])

anomaly_indices(metrics, threshold_sigma, window) ==
    NonZero(detect_anomalies(metrics, threshold_sigma, window))

\* the series of the end-to-end scenario
SpikeSeries == <<1, 1, 1, 1, 100, 1, 1, 1, 1>>

AnomalyArgs ==
    {[metrics |-> y, threshold_sigma |-> s, window |-> w] :
        y \in Seqs(0..MaxMetric, MaxSeries) \cup {SpikeSeries},
        s \in 0..MaxThreshold,
        w \in 0..MaxRadius}

InitAnomaly ==
    /\ args \in AnomalyArgs
    /\ ret = NoCall
    /\ focusIdle

CallDetectAnomalies ==
    Call("detect_anomalies",
         detect_anomalies(args.metrics, args.threshold_sigma, args.window))

CallAnomalyIndices ==
    Call("anomaly_indices",
         anomaly_indices(args.metrics, args.threshold_sigma, args.window))

NextAnomaly == CallDetectAnomalies \/ CallAnomalyIndices

SpecAnomaly == InitAnomaly /\ [][NextAnomaly]_vars

\* the 0-based indices at which a mask is true
Flagged(mask) == {i \in 0..(Len(mask) - 1) : mask[i + 1]}

\* the robust sigma of a series: 1.4826 * MAD, or the standard deviation when
\* the MAD is exactly zero
SigmaOf(seg) ==
    LET med == Median(seg).q
        mad == Median(AbsDev(seg, med)).q
    IN IF mad.num = 0 THEN Std(seg)
       ELSE PyFloat(RMul(Rat(MadScaleNum, MadScaleDen), mad))

\* C4: in global mode (window <= 0) the mask has the input's length and flags
\* index i exactly when |value[i] - median| > threshold_sigma * sigma, sigma
\* being 1.4826 * MAD, or the standard deviation when MAD is zero; a zero sigma
\* (any constant series) gives an all-false mask; for [1,1,1,1,100,1,1,1,1]
\* with threshold_sigma = 3 the only flagged index is 4.
InvC4 ==
    (ret.op = "detect_anomalies" /\ args.window <= 0) =>
        LET y == AsArray(args.metrics)
            n == Len(y)
            med == Median(y).q
            sigma == SigmaOf(y)
        IN /\ Len(ret.val) = n
           /\ \A i \in 1..n :
                 ret.val[i] <=> /\ sigma # Zero
                                /\ Exceeds(RAbs(RSub(y[i], med)), args.threshold_sigma, sigma)
           /\ (\A i, j \in 1..n : args.metrics[i] = args.metrics[j]) =>
                 Flagged(ret.val) = {}
           /\ (args.metrics = SpikeSeries /\ args.threshold_sigma = 3) =>
                 Flagged(ret.val) = {4}

\* the end-to-end scenario has run in global mode and flagged the spike
WitC4 ==
    /\ ret.op = "detect_anomalies"
    /\ args.window = 0
    /\ args.metrics = SpikeSeries
    /\ args.threshold_sigma = 3
    /\ ret.val[5]

\* the values at the 0-based indices max(0, i - window) .. min(n-1, i + window)
Neighbourhood(y, i, window) ==
    LET lo == Max(0, i - window)
        hi == Min(Len(y) - 1, i + window)
    IN [k \in 1..(hi - lo + 1) |-> y[lo + k]]

\* C5: in local mode (window > 0) index i is decided from the values at
\* max(0, i - window) .. min(n-1, i + window) alone, and an index whose local
\* sigma is zero is never flagged: it is skipped and the others are still
\* evaluated.
InvC5 ==
    (ret.op = "detect_anomalies" /\ args.window > 0) =>
        LET y == AsArray(args.metrics)
            n == Len(y)
        IN /\ Len(ret.val) = n
           /\ \A i \in 0..(n - 1) :
                 LET seg == Neighbourhood(y, i, args.window)
                     med == Median(seg).q
                     sigma == SigmaOf(seg)
                 IN /\ sigma = Zero => ~ret.val[i + 1]
                    /\ sigma # Zero =>
                          (ret.val[i + 1] <=>
                              Exceeds(RAbs(RSub(y[i + 1], med)),
                                      args.threshold_sigma, sigma))

\* a local-mode call in which one index has a zero local sigma and is left
\* unflagged while another index is flagged
WitC5 ==
    /\ ret.op = "detect_anomalies"
    /\ args.window > 0
    /\ \E i, j \in 0..(Len(args.metrics) - 1) :
          /\ SigmaOf(Neighbourhood(AsArray(args.metrics), i, args.window)) = Zero
          /\ ~ret.val[i + 1]
          /\ ret.val[j + 1]

\* C7: anomaly_indices returns a strictly ascending sequence of indices in
\* 0..n-1 holding i exactly when detect_anomalies, on the same arguments, sets
\* mask[i].
InvC7 ==
    ret.op = "anomaly_indices" =>
        LET mask == detect_anomalies(args.metrics, args.threshold_sigma, args.window)
            idx == ret.val
        IN /\ \A k \in 1..(Len(idx) - 1) : idx[k] < idx[k + 1]
           /\ \A k \in 1..Len(idx) : idx[k] \in 0..(Len(args.metrics) - 1)
           /\ \A i \in 0..(Len(args.metrics) - 1) :
                 (\E k \in 1..Len(idx) : idx[k] = i) <=> mask[i + 1]

\* anomaly_indices has returned two or more indices, the first series index
\* not among them
WitC7 ==
    /\ ret.op = "anomaly_indices"
    /\ Len(ret.val) >= 2
    /\ ret.val[1] > 0

\* ------------------------------------------- FocusModel.metric_from_image
\* a raster is a sequence of rows, each a sequence of pixel values
Rows(image) == Len(image)

Cols(image) == IF Len(image) = 0 THEN 0 ELSE Len(image[1])

\* ys, xs = np.indices(image.shape): the 0-based row and column of each pixel
YS(image) == [r \in 1..Rows(image) |-> [c \in 1..Cols(image) |-> RInt(r - 1)]]

XS(image) == [r \in 1..Rows(image) |-> [c \in 1..Cols(image) |-> RInt(c - 1)]]

\* (w * image).sum() for an array w of the image's shape
WeightedSum(image, w) ==
    RSum([r \in 1..Rows(image) |->
            RSum([c \in 1..Cols(image) |-> RMul(w[r][c], RInt(image[r][c]))])])

\* (ix - cen) ** 2, pixel by pixel
SqDev(ix, cen) ==
    [r \in 1..Len(ix) |-> [c \in 1..Len(ix[r]) |->
        RMul(RSub(ix[r][c], cen), RSub(ix[r][c], cen))]]

\* image.sum()
Total(image) ==
    ISum([r \in 1..Rows(image) |-> ISum([c \in 1..Cols(image) |-> image[r][c]])])

\* the guard on a negative total only
NoFluxStrict(total) == total < 0

\* if total <= 0: return 0.0
NoFlux(total) == total <= 0

\* the returned float, and how many divisions by total the call performed;
\* a division by a zero total gives a non-finite quotient and a NaN result
metric_from_image(image) ==
    LET total == Total(image)
    IN IF NoFlux(total) THEN [value |-> Zero, divisions |-> 0]
       ELSE IF total = 0 THEN [value |-> PyNaN, divisions |-> 4]
       ELSE LET xs == XS(image)
                ys == YS(image)
                xcen == RDiv(WeightedSum(image, xs), RInt(total))
                ycen == RDiv(WeightedSum(image, ys), RInt(total))
                dx2 == RDiv(WeightedSum(image, SqDev(xs, xcen)), RInt(total))
                dy2 == RDiv(WeightedSum(image, SqDev(ys, ycen)), RInt(total))
            IN [value |-> PySqrt(RAdd(dx2, dy2)), divisions |-> 4]

\* ---------------------------------------------------- generate_sample_psf
\* the factor 2.355 between a FWHM and a sigma, as 2355/1000
FwhmScaleNum == 2355
FwhmScaleDen == 1000

\* -size//2 : size//2+1 of np.mgrid; Python reads -size//2 as (-size)//2
GridCoords(size) ==
    LET lo == (-size) \div 2
        hi == size \div 2 + 1
    IN [k \in 1..(hi - lo) |-> lo + k - 1]

\* the raster before normalisation is exp(expo) pixel by pixel, with
\* expo = -(x**2 + y**2) / (2 * sigma**2) and sigma = fwhm / 2.355; the returned
\* raster is that divided by its own sum
generate_sample_psf(size, fwhm) ==
    LET g == GridCoords(size)
        sigma == RDiv(RInt(fwhm), Rat(FwhmScaleNum, FwhmScaleDen))
        twoSigma2 == RMul(RInt(2), RMul(sigma, sigma))
    IN [expo |-> [r \in 1..Len(g) |-> [c \in 1..Len(g) |->
                    RDiv(RInt(-(g[c] * g[c] + g[r] * g[r])), twoSigma2)]],
        divisor |-> "psf.sum()"]

Pixels == {-1, 0, 1}

Rasters ==
    UNION {[1..r -> [1..c -> Pixels]] : r \in 0..MaxSide, c \in 0..MaxSide}

ImagingArgs ==
    {[image |-> im] : im \in Rasters}
        \cup {[size |-> n, fwhm |-> f] : n \in 1..MaxSize, f \in 1..MaxFwhm}

InitImaging ==
    /\ args \in ImagingArgs
    /\ ret = NoCall
    /\ focusIdle

CallMetricFromImage ==
    /\ "image" \in DOMAIN args
    /\ Call("metric_from_image", metric_from_image(args.image))

CallGenerateSamplePsf ==
    /\ "size" \in DOMAIN args
    /\ Call("generate_sample_psf", generate_sample_psf(args.size, args.fwhm))

NextImaging == CallMetricFromImage \/ CallGenerateSamplePsf

SpecImaging == InitImaging /\ [][NextImaging]_vars

RECURSIVE Flatten(_)
Flatten(rows) == IF rows = <<>> THEN <<>> ELSE Head(rows) \o Flatten(Tail(rows))

\* the total flux of a raster: the sum of all its pixels
Flux(image) == ISum(Flatten(image))

\* C6: for every raster whose total flux is <= 0, the all-zero and the empty
\* raster included, metric_from_image returns exactly 0.0 and performs no
\* division.
InvC6 ==
    (ret.op = "metric_from_image" /\ Flux(args.image) <= 0) =>
        /\ ret.val.value = Zero
        /\ ret.val.divisions = 0

\* metric_from_image has returned on a raster with pixels of both signs that
\* cancel to a zero flux
WitC6 ==
    /\ ret.op = "metric_from_image"
    /\ Flux(args.image) = 0
    /\ \E r \in 1..Rows(args.image) : \E c \in 1..Cols(args.image) :
          args.image[r][c] > 0

\* the 0-based (row, column) positions of the largest entries of the raster:
\* exp is increasing, so they are the positions of the largest exponent
PeakPositions(psf) ==
    LET n == Len(psf.expo)
    IN {p \in (0..(n - 1)) \X (0..(n - 1)) :
          \A q \in (0..(n - 1)) \X (0..(n - 1)) :
             ~RLess(psf.expo[p[1] + 1][p[2] + 1], psf.expo[q[1] + 1][q[2] + 1])}

\* C8: generate_sample_psf(size, fwhm) returns a raster of exactly size x size
\* pixels for every positive size, with the Gaussian peak on the central row
\* and column (index size \div 2 for odd size), normalised to sum 1.
CexC8 ==
    ret.op = "generate_sample_psf" =>
        /\ Len(ret.val.expo) = args.size
        /\ \A r \in 1..Len(ret.val.expo) : Len(ret.val.expo[r]) = args.size
        /\ args.size % 2 = 1 =>
              PeakPositions(ret.val) = {<<args.size \div 2, args.size \div 2>>}
        /\ ret.val.divisor = "psf.sum()"

\* ------------------------------------------------------------- FocusModel
Callers == 1..NCallers

ParamKeys == {"a", "f0", "sigma", "c", "cost", "success"}

EmptyDict == [k \in {} |-> 0]

Returned(v) == [kind |-> "returned", val |-> v]

Raised(e) == [kind |-> "raised", exc |-> e]

\* a * exp(-0.5*((f-f0)/sigma)**2) + c at one point f, for integer arguments:
\* with sigma = 0 the quotient is 0/0 = NaN at f = f0 and infinite elsewhere,
\* where exp(-inf) = 0 leaves c; otherwise the value is kept as its terms
gaussian_model(f, a, f0, sigma, c) ==
    IF sigma = 0
    THEN IF f = f0 THEN PyNaN ELSE PyFloat(RInt(c))
    ELSE [kind |-> "gauss", a |-> a, c |-> c,
          z2 |-> Rat((f - f0) * (f - f0), sigma * sigma)]

\* least_squares raises ValueError when the residuals at x0 are not all finite
ResidualsFinite(times, x0) ==
    \A i \in 1..Len(times) :
        gaussian_model(times[i], x0[1], x0[2], x0[3], x0[4]) # PyNaN

\* what least_squares may return: a parameter vector whose width has either
\* sign or is zero, a cost, and whether it converged
SolverResults ==
    {[x |-> <<1, 0, wb[1], 0>>, cost |-> IF wb[2] THEN 0 ELSE 1, success |-> wb[2]] :
        wb \in {<<-2, FALSE>>, <<0, TRUE>>, <<1, TRUE>>, <<1, FALSE>>}}

\* the dict literal of fit_focus_metrics
ParamsOf(res) ==
    [a |-> res.x[1], f0 |-> res.x[2], sigma |-> Abs(res.x[3]), c |-> res.x[4],
     cost |-> res.cost, success |-> res.success]

\* the (times, initial_guess) of the fit calls; the metrics are as many ones
FitInputs ==
    {<<t, g>> : t \in {<<0>>, <<1, 2>>},
                g \in {<<1, 0, 1, 0>>, <<1, 0, 0, 0>>, <<1, 1, 0, 0>>}}

PredictTimes == {<<>>, <<0>>, <<1, 2>>, <<0, 1, 2>>}

\* the times of the concurrent predict calls, which touch no shared state
ConcurrentPredictTimes == {<<0>>, <<1, 2>>}

NoFrame == [op |-> "none"]

InitFocus ==
    /\ args = NoCall
    /\ ret = NoCall
    /\ fitted = FALSE
    /\ params = EmptyDict
    /\ writer = EmptyDict
    /\ pc = [c \in Callers |-> "idle"]
    /\ frame = [c \in Callers |-> NoFrame]
    /\ nfits = 0
    /\ fitReturned = FALSE

\* gaussian_model broadcast over the array of times, on the dict p
PredictValues(p, times) ==
    [i \in 1..Len(times) |->
        gaussian_model(times[i], p["a"], p["f0"], p["sigma"], p["c"])]

\* --- one call at a time: each call is one step, and args and ret hold the
\* --- last call and its outcome

\* fit_focus_metrics clearing the instance before it calls the solver
fit_focus_metrics_clearing_first(times, metrics, guess) ==
    /\ nfits < MaxFits
    /\ nfits' = nfits + 1
    /\ args' = [times |-> times, metrics |-> metrics, initial_guess |-> guess,
                afterFit |-> fitReturned]
    /\ IF ResidualsFinite(times, guess)
       THEN \E res \in SolverResults :
               /\ params' = ParamsOf(res)
               /\ writer' = [k \in ParamKeys |-> nfits + 1]
               /\ fitted' = TRUE
               /\ ret' = [op |-> "fit", val |-> Returned(params')]
               /\ fitReturned' = TRUE
       ELSE /\ ret' = [op |-> "fit", val |-> Raised("ValueError")]
            /\ fitted' = FALSE
            /\ params' = EmptyDict
            /\ writer' = EmptyDict
            /\ UNCHANGED fitReturned
    /\ UNCHANGED <<pc, frame>>

\* fit_focus_metrics(times, metrics, initial_guess): a raise inside
\* least_squares leaves the instance as it was
fit_focus_metrics(times, metrics, guess) ==
    /\ nfits < MaxFits
    /\ nfits' = nfits + 1
    /\ args' = [times |-> times, metrics |-> metrics, initial_guess |-> guess,
                afterFit |-> fitReturned]
    /\ IF ResidualsFinite(times, guess)
       THEN \E res \in SolverResults :
               /\ params' = ParamsOf(res)
               /\ writer' = [k \in ParamKeys |-> nfits + 1]
               /\ fitted' = TRUE
               /\ ret' = [op |-> "fit", val |-> Returned(params')]
               /\ fitReturned' = TRUE
       ELSE /\ ret' = [op |-> "fit", val |-> Raised("ValueError")]
            /\ UNCHANGED <<fitted, params, writer, fitReturned>>
    /\ UNCHANGED <<pc, frame>>

\* predict_metric gated on the stored success flag as well as on fitted
predict_metric_gated_on_success(times) ==
    /\ args' = [times |-> times, afterFit |-> fitReturned]
    /\ ret' = [op |-> "predict",
               val |-> IF ~fitted THEN Raised("RuntimeError")
                       ELSE IF ~params["success"] THEN Raised("RuntimeError")
                       ELSE Returned(PredictValues(params, times))]
    /\ UNCHANGED focusVars

\* predict_metric(times); afterFit is a ghost: whether a fit call had returned
\* when this call was made
predict_metric(times) ==
    /\ args' = [times |-> times, afterFit |-> fitReturned]
    /\ ret' = [op |-> "predict",
               val |-> IF ~fitted THEN Raised("RuntimeError")
                       ELSE Returned(PredictValues(params, times))]
    /\ UNCHANGED focusVars

FitCall ==
    \E in \in FitInputs :
        fit_focus_metrics(in[1], [i \in 1..Len(in[1]) |-> 1], in[2])

PredictCall == \E t \in PredictTimes : predict_metric(t)

NextFocus == FitCall \/ PredictCall

SpecFocus == InitFocus /\ [][NextFocus]_vars

\* --- concurrent callers of one shared instance: each call runs statement by
\* --- statement, interleaved with the statements of the other callers

Goto(c, label) == pc' = [pc EXCEPT ![c] = label]

\* the call of caller c ends, by a return or by a raise
Finish(c) ==
    /\ pc' = [pc EXCEPT ![c] = "idle"]
    /\ frame' = [frame EXCEPT ![c] = NoFrame]

\* caller c enters fit_focus_metrics(times, metrics, initial_guess)
CallFit(c, times, metrics, guess) ==
    /\ pc[c] = "idle"
    /\ nfits < MaxFits
    /\ nfits' = nfits + 1
    /\ Goto(c, "fit_solve")
    /\ frame' = [frame EXCEPT ![c] =
                    [op |-> "fit", id |-> nfits + 1, times |-> times,
                     metrics |-> metrics, initial_guess |-> guess]]
    /\ UNCHANGED <<args, ret, fitted, params, writer, fitReturned>>

\* res = least_squares(residuals, x0=np.array(initial_guess)); its arguments
\* are not read again
FitSolve(c) ==
    /\ pc[c] = "fit_solve"
    /\ IF ResidualsFinite(frame[c].times, frame[c].initial_guess)
       THEN /\ \E res \in SolverResults :
                  frame' = [frame EXCEPT ![c] =
                               [op |-> "fit", id |-> frame[c].id, res |-> res]]
            /\ Goto(c, "fit_store")
       ELSE Finish(c)
    /\ UNCHANGED <<args, ret, fitted, params, writer, nfits, fitReturned>>

\* the four model parameters written into the dict that is already stored
FitStoreInPlace(c) ==
    /\ pc[c] = "fit_store"
    /\ LET new == ParamsOf(frame[c].res)
           keys == {"a", "f0", "sigma", "c"}
       IN /\ params' = [k \in DOMAIN params \cup keys |->
                           IF k \in keys THEN new[k] ELSE params[k]]
          /\ writer' = [k \in DOMAIN writer \cup keys |->
                           IF k \in keys THEN frame[c].id ELSE writer[k]]
    /\ Goto(c, "fit_flag")
    /\ UNCHANGED <<args, ret, fitted, frame, nfits, fitReturned>>

\* self.params = {...}: a new dict replaces the old one in one store
FitStoreParams(c) ==
    /\ pc[c] = "fit_store"
    /\ params' = ParamsOf(frame[c].res)
    /\ writer' = [k \in ParamKeys |-> frame[c].id]
    /\ Goto(c, "fit_flag")
    /\ UNCHANGED <<args, ret, fitted, frame, nfits, fitReturned>>

\* self.fitted = True
FitSetFitted(c) ==
    /\ pc[c] = "fit_flag"
    /\ fitted' = TRUE
    /\ Goto(c, "fit_return")
    /\ UNCHANGED <<args, ret, params, writer, frame, nfits, fitReturned>>

\* return self.params
FitReturn(c) ==
    /\ pc[c] = "fit_return"
    /\ Finish(c)
    /\ fitReturned' = TRUE
    /\ UNCHANGED <<args, ret, fitted, params, writer, nfits>>

\* caller c enters predict_metric(times)
CallPredict(c, times) ==
    /\ pc[c] = "idle"
    /\ Goto(c, "pred_check")
    /\ frame' = [frame EXCEPT ![c] = [op |-> "predict", times |-> times]]
    /\ UNCHANGED <<args, ret, fitted, params, writer, nfits, fitReturned>>

\* if not self.fitted: raise RuntimeError(...)
PredictCheck(c) ==
    /\ pc[c] = "pred_check"
    /\ IF ~fitted
       THEN Finish(c)
       ELSE Goto(c, "pred_read") /\ UNCHANGED frame
    /\ UNCHANGED <<args, ret, fitted, params, writer, nfits, fitReturned>>

\* p = self.params: the caller holds the dict that is stored at this moment
\* (pw is a ghost: who wrote each of its keys)
PredictRead(c) ==
    /\ pc[c] = "pred_read"
    /\ frame' = [frame EXCEPT ![c] = @ @@ [p |-> params, pw |-> writer]]
    /\ Goto(c, "pred_eval")
    /\ UNCHANGED <<args, ret, fitted, params, writer, nfits, fitReturned>>

\* return self.gaussian_model(times, p["a"], p["f0"], p["sigma"], p["c"]);
\* a missing key raises KeyError
PredictEval(c) ==
    /\ pc[c] = "pred_eval"
    /\ Finish(c)
    /\ UNCHANGED <<args, ret, fitted, params, writer, nfits, fitReturned>>

NextFocusConc ==
    \E c \in Callers :
        \/ \E in \in FitInputs :
              CallFit(c, in[1], [i \in 1..Len(in[1]) |-> 1], in[2])
        \/ \E t \in ConcurrentPredictTimes : CallPredict(c, t)
        \/ FitSolve(c)
        \/ FitStoreParams(c)
        \/ FitSetFitted(c)
        \/ FitReturn(c)
        \/ PredictCheck(c)
        \/ PredictRead(c)
        \/ PredictEval(c)

SpecFocusConc == InitFocus /\ [][NextFocusConc]_vars

\* C1: predict_metric called while no fit call has completed fails with
\* RuntimeError; once a fit call has completed, converged or not, every later
\* predict_metric call returns an array with as many entries as its times.
InvC1 ==
    ret.op = "predict" =>
        /\ ~args.afterFit => ret.val = Raised("RuntimeError")
        /\ args.afterFit =>
              /\ ret.val.kind = "returned"
              /\ Len(ret.val.val) = Len(args.times)

\* predict_metric has returned two values after a fit that did not converge
WitC1 ==
    /\ ret.op = "predict"
    /\ args.afterFit
    /\ ~params["success"]
    /\ Len(args.times) = 2
    /\ ret.val.kind = "returned"

\* C9: fitted and params change only in a fit_focus_metrics call that returns
\* normally: predict_metric, failing or not, and a fit call that raises in the
\* solver leave both as they were; fitted never goes from true back to false.
ActC9 ==
    [][/\ fitted => fitted'
       /\ (fitted' # fitted \/ params' # params) =>
             (ret'.op = "fit" /\ ret'.val.kind = "returned")
       /\ (ret'.op = "predict" \/ (ret'.op = "fit" /\ ret'.val.kind = "raised")) =>
             (fitted' = fitted /\ params' = params)]_vars

\* a fit call on a fitted instance has raised inside the solver (sigma0 = 0
\* with a time equal to f0) and the stored parameters are still there
WitC9 ==
    /\ ret.op = "fit"
    /\ ret.val = Raised("ValueError")
    /\ args.initial_guess[3] = 0
    /\ args.afterFit
    /\ fitted
    /\ DOMAIN params = ParamKeys

\* a dict d whose keys were written by w is the whole result of one fit call
WholeFit(d, w) ==
    /\ DOMAIN d = ParamKeys
    /\ \E id \in 1..nfits : \A k \in ParamKeys : w[k] = id
    /\ d \in {ParamsOf(res) : res \in SolverResults}
    /\ d["sigma"] >= 0

\* C10: under any interleaving of concurrent fit and predict calls, fitted
\* implies that params is the complete set written by one single fit call,
\* with sigma >= 0, and a predict call past the fitted check evaluates the
\* model on such a set.
InvC10 ==
    /\ fitted => WholeFit(params, writer)
    /\ \A c \in Callers : pc[c] = "pred_eval" => WholeFit(frame[c].p, frame[c].pw)

\* a predict call holds the dict of one fit while another fit call, running
\* at the same time, has replaced the stored one
WitC10 ==
    \E c, d \in Callers :
        /\ pc[c] = "pred_eval"
        /\ pc[d] = "fit_flag"
        /\ frame[c].pw["a"] # writer["a"]

====
